---- MODULE Spec2Model ----
(***************************************************************************)
(* Model of the compositing pipeline of background-remova:                *)
(* processImage (cutout, canvas composition, overlays, export, fallback)  *)
(* the price text formatting that processImage applies to                 *)
(* options.priceText, and the editor page that calls processImage.        *)
(*                                                                        *)
(* Strings are sequences of one-character strings.                        *)
(***************************************************************************)
EXTENDS Integers, Sequences, FiniteSets, TLC

VARIABLES
    pc,              \* position of the processImage invocation
    options,         \* the ProcessOptions the invocation was given
    cutoutCalls,     \* the removeBackground calls made so far, in order
    transparentBlob, \* const transparentBlob (output of the first cutout call)
    canvas,          \* the canvas element of the invocation and what was drawn on it
    bitmapCalls,     \* the createImageBitmap calls made so far, in order
    caught,          \* the error bound by the catch clause, if it ran
    outcome,         \* settlement of the promise processImage returned
    fmtPc,           \* formatter harness: how often the formatting was applied
    fmtIn,           \* formatter harness: the raw price text
    fmtOut,          \* formatter harness: the text after one formatting
    fmtOut2,         \* formatter harness: the text after formatting fmtOut again
    geoPc,           \* geometry harness: which computation was applied
    geoIn,           \* geometry harness: box, position, rotation and scale
    geoOut,          \* geometry harness: the computed placement
    inv,             \* concurrent invocations: the locals of each processImage call
    heap,            \* concurrent invocations: the canvas elements created so far
    supabase,        \* editor page: whether the storage client is configured
    originalFile,    \* editor page: the selected product image
    logoFile,        \* editor page: the selected logo
    processedPreview, \* editor page: the object URL of the displayed result
    processedBlob,   \* editor page: the blob the Download button saves
    loading,         \* editor page: the loading flag
    toast,           \* editor page: the toast shown last
    downloaded,      \* editor page: the blob downloaded last
    runs             \* editor page: the handleProcess calls and their closures

pipeVars == <<pc, options, cutoutCalls, transparentBlob, canvas, bitmapCalls,
              caught, outcome>>
fmtVars == <<fmtPc, fmtIn, fmtOut, fmtOut2>>
geoVars == <<geoPc, geoIn, geoOut>>
vars == <<pc, options, cutoutCalls, transparentBlob, canvas, bitmapCalls, caught,
          outcome,
          fmtPc, fmtIn, fmtOut, fmtOut2, geoPc, geoIn, geoOut, inv, heap,
          supabase, originalFile, logoFile, processedPreview, processedBlob,
          loading, toast, downloaded, runs>>
pairVars == <<inv, heap>>
pageVars == <<supabase, originalFile, logoFile, processedPreview, processedBlob,
              loading, toast, downloaded, runs>>
notPipeVars == <<fmtVars, geoVars, pairVars, pageVars>>
notFmtVars == <<pipeVars, geoVars, pairVars, pageVars>>
notGeoVars == <<pipeVars, fmtVars, pairVars, pageVars>>
notPairVars == <<pipeVars, fmtVars, geoVars, pageVars>>
notPageVars == <<pipeVars, fmtVars, geoVars, pairVars>>

----------------------------------------------------------------------------
(* Bounds *)

\* longest raw price text enumerated exhaustively
MaxLen == 4

\* width of one character of the price text as measureText reports it
CharWidth == 31

\* largest side of the boxes and bitmaps enumerated exhaustively
MaxBox == 3

\* characters the raw price texts are built from
Alphabet == {"R", "r", "s", "1", ".", "/", "=", " ", "a"}

\* images the external cutout engine may deliver
CutoutImages == {"imgA", "imgB"}

\* errors an external step may raise
ErrCodes == {"E1", "E2"}

----------------------------------------------------------------------------
(* Price text formatting: the statements of processImage that turn         *)
(* options.priceText into displayText.                                     *)

Digits == {"0", "1", "2", "3", "4", "5", "6", "7", "8", "9"}

WhiteSpace == {" "}

RECURSIVE trimStart(_)
trimStart(s) ==
    IF s # <<>> /\ Head(s) \in WhiteSpace THEN trimStart(Tail(s)) ELSE s

RECURSIVE trimEnd(_)
trimEnd(s) ==
    IF s # <<>> /\ s[Len(s)] \in WhiteSpace
    THEN trimEnd(SubSeq(s, 1, Len(s) - 1))
    ELSE s

\* String.prototype.trim
trim(s) == trimEnd(trimStart(s))

\* a plausible slip: the character class without the dot
IsDigitChar(c) == c \in Digits

\* displayText.replace(/[^0-9.]/g, "")
IsNumericChar(c) == c \in Digits \cup {"."}

stripNonNumeric(s) == SelectSeq(s, IsNumericChar)

lowerChar(c) ==
    CASE c = "R" -> "r"
      [] c = "S" -> "s"
      [] c = "A" -> "a"
      [] c = "B" -> "b"
      [] c = "C" -> "c"
      [] c = "H" -> "h"
      [] c = "O" -> "o"
      [] c = "U" -> "u"
      [] OTHER -> c

\* String.prototype.toLowerCase
toLowerCase(s) == [i \in 1..Len(s) |-> lowerChar(s[i])]

\* a plausible slip: the marker is looked for at the start only
includesAtStart(s, t) ==
    Len(s) >= Len(t) /\ SubSeq(s, 1, Len(t)) = t

\* String.prototype.includes
includes(s, t) ==
    \E i \in 1..(Len(s) - Len(t) + 1) : SubSeq(s, i, i + Len(t) - 1) = t

\* String.prototype.startsWith
startsWith(s, t) == Len(s) >= Len(t) /\ SubSeq(s, 1, Len(t)) = t

\* String.prototype.endsWith
endsWith(s, t) ==
    Len(s) >= Len(t) /\ SubSeq(s, Len(s) - Len(t) + 1, Len(s)) = t

RsMarker == <<"r", "s">>

RsPrefix == <<"R", "s", " ">>

PriceSuffix == <<"/", "=">>

\* a plausible slip: the test for a number forgotten
NeedsRsFormAlways(displayText, numericValue) ==
    ~includes(toLowerCase(displayText), RsMarker)

\* the first branch of the formatting: a number and no "rs" marker
NeedsRsForm(displayText, numericValue) ==
    numericValue # <<>> /\ ~includes(toLowerCase(displayText), RsMarker)

\* a plausible slip: the suffix test forgotten
NeedsSuffixAlways(displayText) ==
    startsWith(toLowerCase(displayText), RsMarker)

\* the second branch of the formatting: starts with "rs", lacks the "/="
NeedsSuffix(displayText) ==
    startsWith(toLowerCase(displayText), RsMarker)
        /\ ~endsWith(displayText, PriceSuffix)

\* a plausible slip: every text with a number is rewritten from its number
formatPriceNumericOnly(priceText) ==
    LET displayText == trim(priceText)
        numericValue == stripNonNumeric(displayText)
    IN  IF numericValue # <<>>
        THEN RsPrefix \o numericValue \o PriceSuffix
        ELSE displayText

formatPrice(priceText) ==
    LET displayText == trim(priceText)
        numericValue == stripNonNumeric(displayText)
    IN  IF NeedsRsForm(displayText, numericValue)
        THEN RsPrefix \o numericValue \o PriceSuffix
        ELSE IF NeedsSuffix(displayText)
             THEN displayText \o PriceSuffix
             ELSE displayText

----------------------------------------------------------------------------
(* Values *)

NoBlob == [kind |-> "none", call |-> 0, cfg |-> "none", bytes |-> "none",
           surface |-> <<>>]

NoError == [step |-> "none", call |-> 0, code |-> "none"]

Pending == [status |-> "pending", value |-> NoBlob, error |-> NoError]

targetSize == 720

\* the blob a removeBackground call delivers
CutoutBlob(call, cfg, bytes) ==
    [kind |-> "cutout", call |-> call, cfg |-> cfg, bytes |-> bytes,
     surface |-> <<>>]

\* the blob canvas.toBlob delivers: the JPEG encoding of what was drawn
CompositeBlob(cv) ==
    [kind |-> "composite", call |-> 0, cfg |-> "none", bytes |-> "jpeg",
     surface |-> cv.ops]

----------------------------------------------------------------------------
(* Numbers.  Coordinates are exact rationals <<n, d>> with d > 0 in lowest  *)
(* terms; the code computes them in double precision.                      *)

Abs(i) == IF i < 0 THEN -i ELSE i

RECURSIVE GCD(_, _)
GCD(a, b) == IF b = 0 THEN a ELSE GCD(b, a % b)

RNorm(n, d) ==
    LET g == GCD(Abs(n), Abs(d))
        sgn == IF d < 0 THEN -1 ELSE 1
    IN  <<(sgn * n) \div g, (sgn * d) \div g>>

RI(i) == <<i, 1>>

RAdd(p, q) == RNorm(p[1] * q[2] + q[1] * p[2], p[2] * q[2])

RSub(p, q) == RNorm(p[1] * q[2] - q[1] * p[2], p[2] * q[2])

RMul(p, q) == RNorm(p[1] * q[1], p[2] * q[2])

RDiv(p, q) == RNorm(p[1] * q[2], p[2] * q[1])

RLe(p, q) == p[1] * q[2] <= q[1] * p[2]

\* Math.min
RMin(p, q) == IF RLe(p, q) THEN p ELSE q

\* an absent optional number or string (undefined)
Undef == <<>>

\* a default parameter value: applies to undefined only
OrDefault(v, d) == IF v = Undef THEN d ELSE v

\* a plausible slip: v ?? d, which keeps a 0
OrElseNullish(v, d) == IF v = Undef THEN d ELSE v

\* v || d on numbers: undefined and 0 are falsy
OrElse(v, d) == IF v = Undef \/ v = RI(0) THEN d ELSE v

\* a plausible slip: the position is passed on as given
PosOrElseGiven(pos, d) == pos

\* pos || d on strings: undefined and "" are falsy
PosOrElse(pos, d) == IF pos = "" THEN d ELSE pos

----------------------------------------------------------------------------
(* Layout: the subject fit, getCoords and the logo box *)

padding == 40

baseSize == 150

fontSize == 56

bgPadding == 16

\* a plausible slip: the subject is fitted to the whole canvas
FitSideFull == RI(targetSize)

\* targetSize * 0.9
FitSide == RDiv(RMul(RI(targetSize), RI(9)), RI(10))

\* a plausible slip: the subject is fitted to the longer scaled side only
subjectRectStretched(width, height) ==
    LET x == RDiv(RSub(RI(targetSize), FitSide), RI(2))
    IN  [x |-> x, y |-> x, w |-> FitSide, h |-> FitSide]

\* "Draw Product": scale, newWidth, newHeight, x, y
subjectRect(width, height) ==
    LET scale == RMin(RDiv(FitSide, RI(width)), RDiv(FitSide, RI(height)))
        newWidth == RMul(RI(width), scale)
        newHeight == RMul(RI(height), scale)
        x == RDiv(RSub(RI(targetSize), newWidth), RI(2))
        y == RDiv(RSub(RI(targetSize), newHeight), RI(2))
    IN  [x |-> x, y |-> y, w |-> newWidth, h |-> newHeight]

\* a plausible slip: the logo is drawn at its original size
logoBoxUnscaled(width, height) == [w |-> RI(width), h |-> RI(height)]

\* "Draw Logo": ratio, logoW, logoH
logoBox(width, height) ==
    LET ratio == RMin(RDiv(RI(baseSize), RI(width)),
                      RDiv(RI(baseSize), RI(height)))
    IN  [w |-> RMul(RI(width), ratio), h |-> RMul(RI(height), ratio)]

\* a plausible slip: the custom branch anchors the top-left corner
customCoordsTopLeft(w, h, customX, customY) ==
    [x |-> RMul(RDiv(customX, RI(100)), RI(targetSize)),
     y |-> RMul(RDiv(customY, RI(100)), RI(targetSize))]

\* the custom branch of getCoords
customCoords(w, h, customX, customY) ==
    [x |-> RSub(RMul(RDiv(customX, RI(100)), RI(targetSize)), RDiv(w, RI(2))),
     y |-> RSub(RMul(RDiv(customY, RI(100)), RI(targetSize)), RDiv(h, RI(2)))]

\* a plausible slip: the right and bottom corners forget the box size
cornerCoordsNoBox(w, h, pos) ==
    LET far == RSub(RI(targetSize), RI(padding))
    IN  CASE pos = "top-left" -> [x |-> RI(padding), y |-> RI(padding)]
          [] pos = "top-right" -> [x |-> far, y |-> RI(padding)]
          [] pos = "bottom-left" -> [x |-> RI(padding), y |-> far]
          [] pos = "bottom-right" -> [x |-> far, y |-> far]
          [] OTHER -> [x |-> RI(padding), y |-> RI(padding)]

\* the switch of getCoords
cornerCoords(w, h, pos) ==
    LET right == RSub(RSub(RI(targetSize), w), RI(padding))
        bottom == RSub(RSub(RI(targetSize), h), RI(padding))
    IN  CASE pos = "top-left" -> [x |-> RI(padding), y |-> RI(padding)]
          [] pos = "top-right" -> [x |-> right, y |-> RI(padding)]
          [] pos = "bottom-left" -> [x |-> RI(padding), y |-> bottom]
          [] pos = "bottom-right" -> [x |-> right, y |-> bottom]
          [] OTHER -> [x |-> RI(padding), y |-> RI(padding)]

getCoords(w, h, pos, customX, customY) ==
    IF pos = "custom"
    THEN customCoords(w, h, OrDefault(customX, RI(0)), OrDefault(customY, RI(0)))
    ELSE cornerCoords(w, h, pos)

----------------------------------------------------------------------------
(* The 2d context: current transform, drawing state and save/restore stack *)

\* the matrix (a b c d e f): x' = a x + c y + e, y' = b x + d y + f
Identity == [a |-> RI(1), b |-> RI(0), c |-> RI(0), d |-> RI(1),
             e |-> RI(0), f |-> RI(0)]

\* the product M N: N is applied to a point first
MatMul(M, N) ==
    [a |-> RAdd(RMul(M.a, N.a), RMul(M.c, N.b)),
     b |-> RAdd(RMul(M.b, N.a), RMul(M.d, N.b)),
     c |-> RAdd(RMul(M.a, N.c), RMul(M.c, N.d)),
     d |-> RAdd(RMul(M.b, N.c), RMul(M.d, N.d)),
     e |-> RAdd(RAdd(RMul(M.a, N.e), RMul(M.c, N.f)), M.e),
     f |-> RAdd(RAdd(RMul(M.b, N.e), RMul(M.d, N.f)), M.f)]

\* where the matrix M puts the point (x, y)
Apply(M, x, y) ==
    [x |-> RAdd(RAdd(RMul(M.a, x), RMul(M.c, y)), M.e),
     y |-> RAdd(RAdd(RMul(M.b, x), RMul(M.d, y)), M.f)]

\* cosine and sine of a multiple of 90 degrees
Quarter(angle) == ((angle % 360) + 360) % 360

Cos(angle) ==
    CASE Quarter(angle) = 0 -> RI(1)
      [] Quarter(angle) = 180 -> RI(-1)
      [] OTHER -> RI(0)

Sin(angle) ==
    CASE Quarter(angle) = 90 -> RI(1)
      [] Quarter(angle) = 270 -> RI(-1)
      [] OTHER -> RI(0)

NoShadow == "rgba(0,0,0,0)"

\* the drawing state that save() pushes and restore() pops
InitialState ==
    [m |-> Identity, fillStyle |-> "#000000", shadowColor |-> NoShadow,
     shadowBlur |-> 0, shadowOffsetY |-> 0, font |-> "10px sans-serif",
     textBaseline |-> "alphabetic"]

NoCtx == [ok |-> FALSE, state |-> InitialState, saved |-> <<>>]

\* canvas.getContext("2d")
InitialCtx == [ok |-> TRUE, state |-> InitialState, saved |-> <<>>]

\* ctx.save()
save(ctx) == [ctx EXCEPT !.saved = Append(ctx.saved, ctx.state)]

\* ctx.restore(): pops the saved state, does nothing on an empty stack
restore(ctx) ==
    IF ctx.saved = <<>> THEN ctx
    ELSE [ctx EXCEPT !.state = ctx.saved[Len(ctx.saved)],
                     !.saved = SubSeq(ctx.saved, 1, Len(ctx.saved) - 1)]

Transform(ctx, N) == [ctx EXCEPT !.state.m = MatMul(ctx.state.m, N)]

\* ctx.translate(x, y)
translate(ctx, x, y) ==
    Transform(ctx, [Identity EXCEPT !.e = x, !.f = y])

\* ctx.rotate((angle * Math.PI) / 180), angle in degrees
rotate(ctx, angle) ==
    Transform(ctx, [a |-> Cos(angle), b |-> Sin(angle),
                    c |-> RSub(RI(0), Sin(angle)), d |-> Cos(angle),
                    e |-> RI(0), f |-> RI(0)])

\* ctx.scale(sx, sy)
scale(ctx, sx, sy) == Transform(ctx, [Identity EXCEPT !.a = sx, !.d = sy])

\* a plausible slip: rotation and scale about the canvas origin
pivotNoTranslateBack(ctx, cx, cy, angle, sc) ==
    scale(rotate(translate(ctx, cx, cy), angle), sc, sc)

\* the four transform calls of drawTransform between save() and drawFn()
pivot(ctx, cx, cy, angle, sc) ==
    translate(scale(rotate(translate(ctx, cx, cy), angle), sc, sc),
              RSub(RI(0), cx), RSub(RI(0), cy))

----------------------------------------------------------------------------
(* processImage *)

\* removeBackground(imageFile, config): the cutout call of the try block
PipelineConfig == "config"

\* removeBackground(imageFile): the cutout call of the catch clause
ConfigDefault == "default"

\* a plausible slip: the catch clause passes the pipeline config again
ConfigReused == "config"

FallbackConfig == ConfigDefault

CutoutError(call, code) == [step |-> "cutout", call |-> call, code |-> code]

StepError(step, code) == [step |-> step, call |-> 0, code |-> code]

Resolved(blob) == [status |-> "resolved", value |-> blob, error |-> NoError]

Rejected(error) == [status |-> "rejected", value |-> NoBlob, error |-> error]

\* width of the text as ctx.measureText reports it (an abstraction of the
\* browser's text metrics: every character is CharWidth wide)
measureText(text) == RI(Len(text) * CharWidth)

NoCanvas == [created |-> FALSE, width |-> 0, height |-> 0, ops |-> <<>>,
             ctx |-> NoCtx, threw |-> FALSE]

\* a plausible slip: width and height left at the canvas defaults
DefaultCanvas == [created |-> TRUE, width |-> 300, height |-> 150,
                  ops |-> <<>>, ctx |-> NoCtx, threw |-> FALSE]

\* document.createElement("canvas") with width and height set
NewCanvas == [created |-> TRUE, width |-> targetSize, height |-> targetSize,
              ops |-> <<>>, ctx |-> NoCtx, threw |-> FALSE]

\* a draw call: what is drawn where, under the context state of the moment
DrawOp(cv, name, x, y, w, h, text) ==
    [cv EXCEPT !.ops = Append(cv.ops,
        [op |-> name, x |-> x, y |-> y, w |-> w, h |-> h, text |-> text,
         m |-> cv.ctx.state.m, fillStyle |-> cv.ctx.state.fillStyle,
         shadowColor |-> cv.ctx.state.shadowColor,
         shadowBlur |-> cv.ctx.state.shadowBlur,
         shadowOffsetY |-> cv.ctx.state.shadowOffsetY,
         textBaseline |-> cv.ctx.state.textBaseline])]

\* a draw call raises
Throw(cv) == [cv EXCEPT !.threw = TRUE]

\* the callback of the logo draw: ctx.drawImage(logoBitmap, pos.x, pos.y, w, h);
\* drawFn holds the variables the closure captures
logoDrawFn(c, drawFn) ==
    IF drawFn.drawOk
    THEN DrawOp(c, "drawLogo", drawFn.pos.x, drawFn.pos.y, drawFn.w, drawFn.h, <<>>)
    ELSE Throw(c)

ColorOrElse(color, d) == IF color = "" THEN d ELSE color

\* a plausible slip: the shadow is still set when the text is drawn
priceDrawFnShadowKept(c, drawFn) ==
    LET pos == drawFn.pos
        shadowed == [c EXCEPT !.ctx.state.shadowColor = "rgba(0,0,0,0.3)",
                              !.ctx.state.shadowBlur = 10,
                              !.ctx.state.shadowOffsetY = 5,
                              !.ctx.state.fillStyle =
                                  ColorOrElse(drawFn.priceBgColor, "#E11D48")]
        boxed == DrawOp(shadowed, "roundRect", pos.x, pos.y, drawFn.w, drawFn.h, <<>>)
        plain == [boxed EXCEPT !.ctx.state.fillStyle =
                                   ColorOrElse(drawFn.priceColor, "#FFFFFF"),
                               !.ctx.state.textBaseline = "top"]
    IN  IF drawFn.drawOk
        THEN DrawOp(plain, "fillText", RAdd(pos.x, RI(bgPadding)),
                    RAdd(pos.y, RI(bgPadding + 4)),
                    measureText(drawFn.displayText), RI(fontSize),
                    drawFn.displayText)
        ELSE Throw(shadowed)

\* the callback of the price draw: shadowed rounded box, then the text
priceDrawFn(c, drawFn) ==
    LET pos == drawFn.pos
        shadowed == [c EXCEPT !.ctx.state.shadowColor = "rgba(0,0,0,0.3)",
                              !.ctx.state.shadowBlur = 10,
                              !.ctx.state.shadowOffsetY = 5,
                              !.ctx.state.fillStyle =
                                  ColorOrElse(drawFn.priceBgColor, "#E11D48")]
        boxed == DrawOp(shadowed, "roundRect", pos.x, pos.y, drawFn.w, drawFn.h, <<>>)
        plain == [boxed EXCEPT !.ctx.state.shadowColor = NoShadow,
                               !.ctx.state.fillStyle =
                                   ColorOrElse(drawFn.priceColor, "#FFFFFF"),
                               !.ctx.state.textBaseline = "top"]
    IN  IF drawFn.drawOk
        THEN DrawOp(plain, "fillText", RAdd(pos.x, RI(bgPadding)),
                    RAdd(pos.y, RI(bgPadding + 4)),
                    measureText(drawFn.displayText), RI(fontSize),
                    drawFn.displayText)
        ELSE Throw(shadowed)

\* drawFn(): the callback handed to drawTransform, applied to the canvas
callDrawFn(drawFn, c) ==
    IF drawFn.fn = "logo" THEN logoDrawFn(c, drawFn) ELSE priceDrawFn(c, drawFn)

drawTransform(cv, drawFn, cx, cy, angle, sc) ==
    LET prepared == [cv EXCEPT !.ctx = pivot(save(cv.ctx), cx, cy, angle[1], sc)]
        drawn == callDrawFn(drawFn, prepared)
    IN  IF drawn.threw THEN drawn
        ELSE [drawn EXCEPT !.ctx = restore(drawn.ctx)]

\* "Fill White Background"
fillWhite(cv) ==
    DrawOp([cv EXCEPT !.ctx.state.fillStyle = "#FFFFFF"], "fillRect",
           RI(0), RI(0), RI(targetSize), RI(targetSize), <<>>)

\* "Draw Product"
drawSubject(cv, size) ==
    LET r == subjectRect(size[1], size[2])
    IN  DrawOp(cv, "drawSubject", r.x, r.y, r.w, r.h, <<>>)

\* "Draw Logo", once the logo bitmap of the given size is decoded;
\* drawOk is whether ctx.drawImage returns normally
drawLogo(cv, opts, size, drawOk) ==
    LET box == logoBox(size[1], size[2])
        pos == getCoords(box.w, box.h, PosOrElse(opts.logoPosition, "top-right"),
                         opts.logoX, opts.logoY)
        cx == RAdd(pos.x, RDiv(box.w, RI(2)))
        cy == RAdd(pos.y, RDiv(box.h, RI(2)))
        drawFn == [fn |-> "logo", pos |-> pos, w |-> box.w, h |-> box.h,
                   drawOk |-> drawOk]
    IN  drawTransform(cv, drawFn, cx, cy, OrElse(opts.logoRotation, RI(0)),
                      OrElse(opts.logoScale, RI(1)))

\* a plausible slip: the logo is decoded and drawn whatever logoFile is
hasLogoAlways(opts) == TRUE

\* if (options.logoFile)
hasLogo(opts) == opts.logoFile

\* if (options.priceText): an absent and an empty text are falsy
hasPrice(opts) == opts.priceText # <<>>

\* a plausible slip: the box is as wide as the text, without the padding
drawPriceNoPadding(cv, opts, drawOk) ==
    IF ~hasPrice(opts) THEN cv
    ELSE
    LET displayText == formatPrice(opts.priceText)
        fonted == [cv EXCEPT !.ctx.state.font = "bold 56px sans-serif"]
        bgW == measureText(displayText)
        bgH == RI(fontSize + bgPadding * 2)
        pos == getCoords(bgW, bgH, PosOrElse(opts.pricePosition, "bottom-right"),
                         opts.priceX, opts.priceY)
        cx == RAdd(pos.x, RDiv(bgW, RI(2)))
        cy == RAdd(pos.y, RDiv(bgH, RI(2)))
        drawFn == [fn |-> "price", pos |-> pos, w |-> bgW, h |-> bgH,
                   displayText |-> displayText,
                   priceBgColor |-> opts.priceBgColor,
                   priceColor |-> opts.priceColor, drawOk |-> drawOk]
    IN  drawTransform(fonted, drawFn, cx, cy, OrElse(opts.priceRotation, RI(0)),
                      OrElse(opts.priceScale, RI(1)))

\* "Draw Price"; drawOk is whether ctx.roundRect returns normally
drawPrice(cv, opts, drawOk) ==
    IF ~hasPrice(opts) THEN cv
    ELSE
    LET displayText == formatPrice(opts.priceText)
        fonted == [cv EXCEPT !.ctx.state.font = "bold 56px sans-serif"]
        bgW == RAdd(measureText(displayText), RI(bgPadding * 2))
        bgH == RI(fontSize + bgPadding * 2)
        pos == getCoords(bgW, bgH, PosOrElse(opts.pricePosition, "bottom-right"),
                         opts.priceX, opts.priceY)
        cx == RAdd(pos.x, RDiv(bgW, RI(2)))
        cy == RAdd(pos.y, RDiv(bgH, RI(2)))
        drawFn == [fn |-> "price", pos |-> pos, w |-> bgW, h |-> bgH,
                   displayText |-> displayText,
                   priceBgColor |-> opts.priceBgColor,
                   priceColor |-> opts.priceColor, drawOk |-> drawOk]
    IN  drawTransform(fonted, drawFn, cx, cy, OrElse(opts.priceRotation, RI(0)),
                      OrElse(opts.priceScale, RI(1)))

NoOptions ==
    [logoFile |-> FALSE, logoPosition |-> "", logoScale |-> Undef,
     logoRotation |-> Undef, logoX |-> Undef, logoY |-> Undef,
     priceText |-> <<>>, pricePosition |-> "", priceColor |-> "",
     priceBgColor |-> "", priceScale |-> Undef, priceRotation |-> Undef,
     priceX |-> Undef, priceY |-> Undef]

\* price texts an invocation may be given (<<>> also stands for an absent one)
PriceTexts == {<<>>, <<" ">>, <<"1">>, <<"R", "s">>, <<"a">>}

\* options that set the placement of the overlays
PlacedOptions ==
    { [NoOptions EXCEPT !.logoFile = TRUE, !.logoPosition = "custom",
                        !.logoX = RI(50), !.logoY = RI(50),
                        !.logoScale = RI(2), !.logoRotation = RI(90),
                        !.priceText = <<"1">>, !.pricePosition = "top-left",
                        !.priceScale = <<1, 2>>, !.priceRotation = RI(-90),
                        !.priceColor = "#00FF00", !.priceBgColor = "#0000FF"],
      [NoOptions EXCEPT !.logoFile = TRUE, !.logoPosition = "bottom-left",
                        !.logoScale = RI(0),
                        !.priceText = <<"R", "s", " ", "1">>,
                        !.pricePosition = "custom", !.priceX = RI(100),
                        !.priceRotation = RI(180)] }

OptionsSet ==
    { [NoOptions EXCEPT !.logoFile = l, !.priceText = t] :
          l \in BOOLEAN, t \in PriceTexts } \cup PlacedOptions

\* sizes a decoded subject bitmap may have
SubjectSizes == {<<400, 300>>, <<300, 600>>, <<100, 100>>}

\* sizes a decoded logo bitmap may have
LogoSizes == {<<300, 100>>, <<50, 200>>}

\* a plausible slip: the catch clause exports what was drawn so far
FallbackValueCanvas(cv, call, bytes) == CompositeBlob(cv)

\* what the catch clause returns once its cutout call delivers bytes

FallbackValue(cv, call, bytes) == CutoutBlob(call, FallbackConfig, bytes)

\* a plausible slip: the catch clause waits for a cutout without calling it
CatchWithoutCall(error) ==
    /\ caught' = error
    /\ cutoutCalls' = cutoutCalls
    /\ pc' = "awaitFallback"
    /\ outcome' = outcome

\* catch (error): warn, then call removeBackground(imageFile) and await it
Catch(error) ==
    /\ caught' = error
    /\ cutoutCalls' = Append(cutoutCalls, [cfg |-> FallbackConfig])
    /\ pc' = "awaitFallback"
    /\ outcome' = outcome

\* processImage(imageFile, options) up to its first await
Invoke(opts) ==
    /\ pc = "idle"
    /\ options' = opts
    /\ cutoutCalls' = <<[cfg |-> PipelineConfig]>>
    /\ pc' = "awaitCutout"
    /\ UNCHANGED <<transparentBlob, canvas, bitmapCalls, caught, outcome>>
    /\ UNCHANGED notPipeVars

\* the first cutout call delivers; createImageBitmap(transparentBlob) starts
CutoutResolve(bytes) ==
    /\ pc = "awaitCutout"
    /\ transparentBlob' = CutoutBlob(1, PipelineConfig, bytes)
    /\ bitmapCalls' = Append(bitmapCalls, "subject")
    /\ pc' = "awaitSubjectDecode"
    /\ UNCHANGED <<options, cutoutCalls, canvas, caught, outcome>>
    /\ UNCHANGED notPipeVars

\* a plausible slip: a failure of the first cutout call leaves the function
CutoutRejectFatal(code) ==
    /\ pc = "awaitCutout"
    /\ outcome' = Rejected(CutoutError(1, code))
    /\ pc' = "done"
    /\ UNCHANGED <<options, cutoutCalls, transparentBlob, canvas, bitmapCalls, caught>>
    /\ UNCHANGED notPipeVars

\* the first cutout call fails inside the try block
CutoutReject(code) ==
    /\ pc = "awaitCutout"
    /\ Catch(CutoutError(1, code))
    /\ UNCHANGED <<options, transparentBlob, canvas, bitmapCalls>>
    /\ UNCHANGED notPipeVars

\* createImageBitmap(transparentBlob) fails
SubjectDecodeReject(code) ==
    /\ pc = "awaitSubjectDecode"
    /\ Catch(StepError("subjectDecode", code))
    /\ UNCHANGED <<options, transparentBlob, canvas, bitmapCalls>>
    /\ UNCHANGED notPipeVars

\* the export promise is created and returned: canvas.toBlob is pending
StartExport ==
    /\ pc' = "awaitExport"
    /\ UNCHANGED <<cutoutCalls, caught, outcome>>

\* the subject bitmap is decoded: canvas, context, white fill, subject, and
\* either the logo decode or the price tag and the export
SubjectDecodeResolve(ctxOk, size, priceOk) ==
    /\ pc = "awaitSubjectDecode"
    /\ IF ~ctxOk
       THEN /\ canvas' = NewCanvas
            /\ bitmapCalls' = bitmapCalls
            /\ Catch(StepError("context", "Could not get canvas context"))
       ELSE LET based == drawSubject(
                    fillWhite([NewCanvas EXCEPT !.ctx = InitialCtx]), size)
                priced == drawPrice(based, options, priceOk)
            IN  IF hasLogo(options)
                THEN /\ canvas' = based
                     /\ bitmapCalls' = Append(bitmapCalls, "logo")
                     /\ pc' = "awaitLogoDecode"
                     /\ UNCHANGED <<cutoutCalls, caught, outcome>>
                ELSE /\ canvas' = priced
                     /\ bitmapCalls' = bitmapCalls
                     /\ IF priced.threw
                        THEN Catch(StepError("priceDraw", "TypeError"))
                        ELSE StartExport
    /\ UNCHANGED <<options, transparentBlob>>
    /\ UNCHANGED notPipeVars

\* a plausible slip: the price tag is drawn before the logo
LogoDecodeResolvePriceFirst(size, logoOk, priceOk) ==
    /\ pc = "awaitLogoDecode"
    /\ LET priced == drawPrice(canvas, options, priceOk)
           logoed == drawLogo(priced, options, size, logoOk)
       IN  IF priced.threw
           THEN /\ canvas' = priced
                /\ Catch(StepError("priceDraw", "TypeError"))
           ELSE /\ canvas' = logoed
                /\ IF logoed.threw
                   THEN Catch(StepError("logoDraw", "InvalidStateError"))
                   ELSE StartExport
    /\ UNCHANGED <<options, transparentBlob, bitmapCalls>>
    /\ UNCHANGED notPipeVars

\* the logo bitmap is decoded: logo, price tag, export
LogoDecodeResolve(size, logoOk, priceOk) ==
    /\ pc = "awaitLogoDecode"
    /\ LET logoed == drawLogo(canvas, options, size, logoOk)
           priced == drawPrice(logoed, options, priceOk)
       IN  IF logoed.threw
           THEN /\ canvas' = logoed
                /\ Catch(StepError("logoDraw", "InvalidStateError"))
           ELSE /\ canvas' = priced
                /\ IF priced.threw
                   THEN Catch(StepError("priceDraw", "TypeError"))
                   ELSE StartExport
    /\ UNCHANGED <<options, transparentBlob, bitmapCalls>>
    /\ UNCHANGED notPipeVars

\* createImageBitmap(options.logoFile) fails
LogoDecodeReject(code) ==
    /\ pc = "awaitLogoDecode"
    /\ Catch(StepError("logoDecode", code))
    /\ UNCHANGED <<options, transparentBlob, canvas, bitmapCalls>>
    /\ UNCHANGED notPipeVars

\* the toBlob callback receives a blob: resolve(blob)
ExportResolve ==
    /\ pc = "awaitExport"
    /\ outcome' = Resolved(CompositeBlob(canvas))
    /\ pc' = "done"
    /\ UNCHANGED <<options, cutoutCalls, transparentBlob, canvas, bitmapCalls, caught>>
    /\ UNCHANGED notPipeVars

\* the toBlob callback receives null: reject(new Error(...)).  The promise
\* was returned without await, so the rejection settles the promise of
\* processImage and the catch clause does not run.
ExportNull ==
    /\ pc = "awaitExport"
    /\ outcome' = Rejected(StepError("export", "Canvas export failed"))
    /\ pc' = "done"
    /\ UNCHANGED <<options, cutoutCalls, transparentBlob, canvas, bitmapCalls, caught>>
    /\ UNCHANGED notPipeVars

\* the cutout call of the catch clause delivers: its blob is returned
FallbackResolve(bytes) ==
    /\ pc = "awaitFallback"
    /\ outcome' = Resolved(FallbackValue(canvas, Len(cutoutCalls), bytes))
    /\ pc' = "done"
    /\ UNCHANGED <<options, cutoutCalls, transparentBlob, canvas, bitmapCalls, caught>>
    /\ UNCHANGED notPipeVars

\* the cutout call of the catch clause fails: its error leaves the function
FallbackReject(code) ==
    /\ pc = "awaitFallback"
    /\ outcome' = Rejected(CutoutError(Len(cutoutCalls), code))
    /\ pc' = "done"
    /\ UNCHANGED <<options, cutoutCalls, transparentBlob, canvas, bitmapCalls, caught>>
    /\ UNCHANGED notPipeVars

PipeIdle ==
    /\ pc = "idle"
    /\ options = NoOptions
    /\ cutoutCalls = <<>>
    /\ transparentBlob = NoBlob
    /\ canvas = NoCanvas
    /\ bitmapCalls = <<>>
    /\ caught = NoError
    /\ outcome = Pending

FmtIdle ==
    /\ fmtPc = "off"
    /\ fmtIn = <<>>
    /\ fmtOut = <<>>
    /\ fmtOut2 = <<>>

NoGeoIn == [kind |-> "none", w |-> RI(0), h |-> RI(0), text |-> <<>>,
            pos |-> "", customX |-> Undef, customY |-> Undef,
            rotation |-> Undef, scale |-> Undef]

NoGeoOut == [x |-> RI(0), y |-> RI(0), w |-> RI(0), h |-> RI(0),
             m |-> Identity]

GeoIdle ==
    /\ geoPc = "off"
    /\ geoIn = NoGeoIn
    /\ geoOut = NoGeoOut

\* the invocations that may be in flight together
Invs == {1, 2}

\* the locals of an invocation that has not been called
NoInvocation ==
    [pc |-> "idle", options |-> NoOptions, calls |-> 0,
     transparentBlob |-> NoBlob, imageBitmap |-> <<0, 0>>,
     logoBitmap |-> <<0, 0>>, canvas |-> 0, caught |-> NoError,
     outcome |-> Pending]

PairIdle ==
    /\ inv = [i \in Invs |-> NoInvocation]
    /\ heap = <<>>

\* useState<File | null>(null), useState<string | null>(null)
NoFile == "null"

NoResult == [kind |-> "null", of |-> NoFile, logo |-> NoFile]

\* handleProcess calls that can be in progress together
RunIds == {1, 2}

NoRun == [pc |-> "idle", file |-> NoFile, logo |-> NoFile, blob |-> NoResult]

PageIdle ==
    /\ supabase = FALSE
    /\ originalFile = NoFile
    /\ logoFile = NoFile
    /\ processedPreview = NoResult
    /\ processedBlob = NoResult
    /\ loading = FALSE
    /\ toast = "none"
    /\ downloaded = NoResult
    /\ runs = [i \in RunIds |-> NoRun]

Init == PipeIdle /\ FmtIdle /\ GeoIdle /\ PairIdle /\ PageIdle

Next ==
    \/ \E opts \in OptionsSet : Invoke(opts)
    \/ \E bytes \in CutoutImages : CutoutResolve(bytes)
    \/ \E code \in ErrCodes : CutoutReject(code)
    \/ \E ctxOk \in BOOLEAN, size \in SubjectSizes, priceOk \in BOOLEAN :
            SubjectDecodeResolve(ctxOk, size, priceOk)
    \/ \E code \in ErrCodes : SubjectDecodeReject(code)
    \/ \E size \in LogoSizes, logoOk \in BOOLEAN, priceOk \in BOOLEAN :
            LogoDecodeResolve(size, logoOk, priceOk)
    \/ \E code \in ErrCodes : LogoDecodeReject(code)
    \/ ExportResolve
    \/ ExportNull
    \/ \E bytes \in CutoutImages : FallbackResolve(bytes)
    \/ \E code \in ErrCodes : FallbackReject(code)

Spec == Init /\ [][Next]_vars

----------------------------------------------------------------------------
(* The formatting applied to every bounded price text, and applied again   *)
(* to its own output.                                                      *)

RECURSIVE StringsUpTo(_)
StringsUpTo(n) ==
    IF n = 0 THEN {<<>>}
    ELSE LET shorter == StringsUpTo(n - 1)
         IN  shorter \cup {Append(s, c) : s \in shorter, c \in Alphabet}

\* the price texts of the specification's examples
SampleTexts ==
    { <<"1", "5", "0", "0">>,
      <<"R", "s", " ", "1", "5", "0", "0">>,
      <<"R", "s", " ", "1", "5", "0", "0", "/", "=">>,
      <<"a", "b", "c">>,
      <<"1", "5", "0", "0", " ", "r", "s">>,
      <<"h", "o", "u", "r", "s", " ", "5">>,
      <<" ", "R", "S", " ", "1", ".", "5", " ">> }

FmtInputs == StringsUpTo(MaxLen) \cup SampleTexts

FmtInit ==
    /\ PipeIdle
    /\ GeoIdle
    /\ PairIdle
    /\ PageIdle
    /\ fmtPc = "input"
    /\ fmtIn \in FmtInputs
    /\ fmtOut = <<>>
    /\ fmtOut2 = <<>>

\* displayText is computed from options.priceText
FmtFormat ==
    /\ fmtPc = "input"
    /\ fmtOut' = formatPrice(fmtIn)
    /\ fmtPc' = "once"
    /\ UNCHANGED <<fmtIn, fmtOut2>>
    /\ UNCHANGED notFmtVars

\* the displayed text is given as the price text of another invocation
FmtReformat ==
    /\ fmtPc = "once"
    /\ fmtOut2' = formatPrice(fmtOut)
    /\ fmtPc' = "twice"
    /\ UNCHANGED <<fmtIn, fmtOut>>
    /\ UNCHANGED notFmtVars

FmtNext == FmtFormat \/ FmtReformat

FmtSpec == FmtInit /\ [][FmtNext]_vars

----------------------------------------------------------------------------
(* The layout computations applied to every bounded box, position,        *)
(* rotation and scale.                                                     *)

\* boxes of the specification's examples, and one of fractional size
SampleBoxes == {<<RI(100), RI(50)>>, <<RI(150), RI(75)>>, <<RI(800), RI(88)>>,
                <<RI(400), RI(300)>>, <<<<75, 2>>, RI(150)>>}

\* price texts whose tag is placed
GeoTexts == {<<"1">>, <<"1", "5", "0", "0">>}

GeoBoxes ==
    {<<RI(a), RI(b)>> : a \in 1..MaxBox, b \in 1..MaxBox} \cup SampleBoxes

\* position values: undefined, the five of CornerPosition, and another string
GeoPositions == {"", "top-left", "top-right", "bottom-left", "bottom-right",
                 "custom", "center"}

GeoXs == {Undef, RI(0), RI(50), RI(100)}

GeoYs == {Undef, RI(50), RI(80)}

GeoRotations == {Undef, RI(0), RI(90), RI(-90)}

GeoScales == {Undef, RI(0), RI(1), RI(2), <<1, 2>>, RI(-1)}

\* a box (or bitmap) of a given size, or a price text
GeoSubjects ==
    {[kind |-> "box", w |-> box[1], h |-> box[2], text |-> <<>>] :
        box \in GeoBoxes}
    \cup {[kind |-> "price", w |-> RI(0), h |-> RI(0), text |-> t] :
            t \in GeoTexts}

GeoInit ==
    /\ PipeIdle
    /\ FmtIdle
    /\ PairIdle
    /\ PageIdle
    /\ geoPc = "input"
    /\ geoIn \in {[kind |-> g.kind, w |-> g.w, h |-> g.h, text |-> g.text,
                   pos |-> p, customX |-> cx, customY |-> cy,
                   rotation |-> r, scale |-> sc] :
                     g \in GeoSubjects, p \in GeoPositions, cx \in GeoXs,
                     cy \in GeoYs, r \in GeoRotations, sc \in GeoScales}
    /\ geoOut = NoGeoOut

\* getCoords is called with the box, the position and the custom point
GeoGetCoords ==
    /\ geoPc = "input"
    /\ geoIn.kind = "box"
    /\ LET pos == getCoords(geoIn.w, geoIn.h, geoIn.pos, geoIn.customX,
                            geoIn.customY)
       IN  geoOut' = [NoGeoOut EXCEPT !.x = pos.x, !.y = pos.y,
                                      !.w = geoIn.w, !.h = geoIn.h]
    /\ geoPc' = "coords"
    /\ UNCHANGED geoIn
    /\ UNCHANGED notGeoVars

WholeBox == geoIn.kind = "box" /\ geoIn.w[2] = 1 /\ geoIn.h[2] = 1

\* what the last draw call on the canvas drew, and under which transform
LastDrawn(cv) ==
    LET op == cv.ops[Len(cv.ops)]
    IN  [x |-> op.x, y |-> op.y, w |-> op.w, h |-> op.h, m |-> op.m]

\* a bitmap of the box's (whole-numbered) size is drawn as the subject
GeoSubject ==
    /\ geoPc = "input"
    /\ WholeBox
    /\ geoOut' = LastDrawn(drawSubject([NewCanvas EXCEPT !.ctx = InitialCtx],
                                       <<geoIn.w[1], geoIn.h[1]>>))
    /\ geoPc' = "subject"
    /\ UNCHANGED geoIn
    /\ UNCHANGED notGeoVars

\* a bitmap of the box's (whole-numbered) size is drawn as the logo
GeoLogo ==
    /\ geoPc = "input"
    /\ WholeBox
    /\ LET opts == [NoOptions EXCEPT !.logoFile = TRUE,
                        !.logoPosition = geoIn.pos, !.logoX = geoIn.customX,
                        !.logoY = geoIn.customY, !.logoScale = geoIn.scale,
                        !.logoRotation = geoIn.rotation]
       IN  geoOut' = LastDrawn(drawLogo([NewCanvas EXCEPT !.ctx = InitialCtx],
                                        opts, <<geoIn.w[1], geoIn.h[1]>>, TRUE))
    /\ geoPc' = "logo"
    /\ UNCHANGED geoIn
    /\ UNCHANGED notGeoVars

\* the price tag of the text is drawn; geoOut is its background box
GeoPrice ==
    /\ geoPc = "input"
    /\ geoIn.kind = "price"
    /\ LET opts == [NoOptions EXCEPT !.priceText = geoIn.text,
                        !.pricePosition = geoIn.pos, !.priceX = geoIn.customX,
                        !.priceY = geoIn.customY, !.priceScale = geoIn.scale,
                        !.priceRotation = geoIn.rotation]
           cv == drawPrice([NewCanvas EXCEPT !.ctx = InitialCtx], opts, TRUE)
       IN  geoOut' = LastDrawn([cv EXCEPT !.ops = SubSeq(cv.ops, 1, 1)])
    /\ geoPc' = "price"
    /\ UNCHANGED geoIn
    /\ UNCHANGED notGeoVars

GeoNext == GeoGetCoords \/ GeoSubject \/ GeoLogo \/ GeoPrice

GeoSpec == GeoInit /\ [][GeoNext]_vars

----------------------------------------------------------------------------
(* Two invocations of processImage in flight together.  Each handler is    *)
(* the one of the single invocation, acting on the locals inv[i] and on    *)
(* the canvas element its local const canvas refers to.                    *)

\* options and bitmap sizes the concurrent invocations are given
PairOptions ==
    { [NoOptions EXCEPT !.priceText = <<"1">>],
      [NoOptions EXCEPT !.logoFile = TRUE, !.logoScale = RI(2),
                        !.priceText = <<"R", "s">>, !.pricePosition = "top-left"] }

PairSubjectSizes == {<<400, 300>>, <<100, 100>>}

PairLogoSizes == {<<300, 100>>}

\* a plausible slip: one canvas element kept at module level and reused
createCanvasShared(h) == 1

\* document.createElement("canvas"): the element is a new one
createCanvas(h) == Len(h) + 1

\* invocation i leaves the canvas element k in the state cv
Paint(h, k, cv, i) ==
    IF k > Len(h)
    THEN Append(h, [cv |-> cv, creator |-> i, writers |-> {i}])
    ELSE [h EXCEPT ![k].cv = cv, ![k].writers = @ \cup {i}]

\* the catch clause of invocation i
PCatch(r, error) ==
    [r EXCEPT !.caught = error, !.calls = r.calls + 1, !.pc = "awaitFallback"]

PInvoke(i, opts) ==
    /\ inv[i].pc = "idle"
    /\ inv' = [inv EXCEPT ![i] = [@ EXCEPT !.options = opts, !.calls = 1,
                                            !.pc = "awaitCutout"]]
    /\ UNCHANGED heap
    /\ UNCHANGED notPairVars

PCutoutResolve(i, bytes) ==
    /\ inv[i].pc = "awaitCutout"
    /\ inv' = [inv EXCEPT ![i] =
                  [@ EXCEPT !.transparentBlob = CutoutBlob(1, PipelineConfig, bytes),
                            !.pc = "awaitSubjectDecode"]]
    /\ UNCHANGED heap
    /\ UNCHANGED notPairVars

PCutoutReject(i, code) ==
    /\ inv[i].pc = "awaitCutout"
    /\ inv' = [inv EXCEPT ![i] = PCatch(@, CutoutError(1, code))]
    /\ UNCHANGED heap
    /\ UNCHANGED notPairVars

PSubjectDecodeReject(i, code) ==
    /\ inv[i].pc = "awaitSubjectDecode"
    /\ inv' = [inv EXCEPT ![i] = PCatch(@, StepError("subjectDecode", code))]
    /\ UNCHANGED heap
    /\ UNCHANGED notPairVars

PSubjectDecodeResolve(i, ctxOk, size, priceOk) ==
    /\ inv[i].pc = "awaitSubjectDecode"
    /\ LET k == createCanvas(heap)
           r == [inv[i] EXCEPT !.imageBitmap = size, !.canvas = k]
           based == drawSubject(
                        fillWhite([NewCanvas EXCEPT !.ctx = InitialCtx]), size)
           priced == drawPrice(based, r.options, priceOk)
       IN  IF ~ctxOk
           THEN /\ heap' = Paint(heap, k, NewCanvas, i)
                /\ inv' = [inv EXCEPT ![i] =
                       PCatch(r, StepError("context", "Could not get canvas context"))]
           ELSE IF hasLogo(r.options)
                THEN /\ heap' = Paint(heap, k, based, i)
                     /\ inv' = [inv EXCEPT ![i] = [r EXCEPT !.pc = "awaitLogoDecode"]]
                ELSE /\ heap' = Paint(heap, k, priced, i)
                     /\ inv' = [inv EXCEPT ![i] =
                            IF priced.threw
                            THEN PCatch(r, StepError("priceDraw", "TypeError"))
                            ELSE [r EXCEPT !.pc = "awaitExport"]]
    /\ UNCHANGED notPairVars

PLogoDecodeResolve(i, size, logoOk, priceOk) ==
    /\ inv[i].pc = "awaitLogoDecode"
    /\ LET k == inv[i].canvas
           r == [inv[i] EXCEPT !.logoBitmap = size]
           logoed == drawLogo(heap[k].cv, r.options, size, logoOk)
           priced == drawPrice(logoed, r.options, priceOk)
       IN  IF logoed.threw
           THEN /\ heap' = Paint(heap, k, logoed, i)
                /\ inv' = [inv EXCEPT ![i] =
                       PCatch(r, StepError("logoDraw", "InvalidStateError"))]
           ELSE /\ heap' = Paint(heap, k, priced, i)
                /\ inv' = [inv EXCEPT ![i] =
                       IF priced.threw
                       THEN PCatch(r, StepError("priceDraw", "TypeError"))
                       ELSE [r EXCEPT !.pc = "awaitExport"]]
    /\ UNCHANGED notPairVars

PLogoDecodeReject(i, code) ==
    /\ inv[i].pc = "awaitLogoDecode"
    /\ inv' = [inv EXCEPT ![i] = PCatch(@, StepError("logoDecode", code))]
    /\ UNCHANGED heap
    /\ UNCHANGED notPairVars

PExportResolve(i) ==
    /\ inv[i].pc = "awaitExport"
    /\ inv' = [inv EXCEPT ![i] =
                  [@ EXCEPT !.outcome = Resolved(CompositeBlob(heap[inv[i].canvas].cv)),
                            !.pc = "done"]]
    /\ UNCHANGED heap
    /\ UNCHANGED notPairVars

PExportNull(i) ==
    /\ inv[i].pc = "awaitExport"
    /\ inv' = [inv EXCEPT ![i] =
                  [@ EXCEPT !.outcome =
                                Rejected(StepError("export", "Canvas export failed")),
                            !.pc = "done"]]
    /\ UNCHANGED heap
    /\ UNCHANGED notPairVars

PFallbackResolve(i, bytes) ==
    /\ inv[i].pc = "awaitFallback"
    /\ inv' = [inv EXCEPT ![i] =
                  [@ EXCEPT !.outcome =
                                Resolved(CutoutBlob(inv[i].calls, FallbackConfig, bytes)),
                            !.pc = "done"]]
    /\ UNCHANGED heap
    /\ UNCHANGED notPairVars

PFallbackReject(i, code) ==
    /\ inv[i].pc = "awaitFallback"
    /\ inv' = [inv EXCEPT ![i] =
                  [@ EXCEPT !.outcome = Rejected(CutoutError(inv[i].calls, code)),
                            !.pc = "done"]]
    /\ UNCHANGED heap
    /\ UNCHANGED notPairVars

PairInit == PipeIdle /\ FmtIdle /\ GeoIdle /\ PairIdle /\ PageIdle

PairNext ==
    \E i \in Invs :
        \/ \E opts \in PairOptions : PInvoke(i, opts)
        \/ PCutoutResolve(i, "imgA")
        \/ PCutoutReject(i, "E1")
        \/ \E ctxOk \in BOOLEAN, size \in PairSubjectSizes, priceOk \in BOOLEAN :
                PSubjectDecodeResolve(i, ctxOk, size, priceOk)
        \/ PSubjectDecodeReject(i, "E1")
        \/ \E size \in PairLogoSizes, logoOk \in BOOLEAN, priceOk \in BOOLEAN :
                PLogoDecodeResolve(i, size, logoOk, priceOk)
        \/ PLogoDecodeReject(i, "E1")
        \/ PExportResolve(i)
        \/ PExportNull(i)
        \/ PFallbackResolve(i, "imgA")
        \/ PFallbackReject(i, "E1")

PairSpec == PairInit /\ [][PairNext]_vars

----------------------------------------------------------------------------
(* The fallback: which failures reach the catch clause, and what the       *)
(* caller then observes.                                                    *)

\* the two states of the fallback: the try block, and the catch clause
mode == IF caught = NoError THEN "Advanced" ELSE "Minimal"

Settled == outcome.status # "pending"

\* the first cutout call has settled with an error
FirstCutoutFailed ==
    pc \notin {"idle", "awaitCutout"} /\ transparentBlob = NoBlob

\* a blob that is the plain output of a cutout call: nothing was drawn into it
CutoutOnly(blob) == blob.kind = "cutout" /\ blob.surface = <<>>

HasOp(blob, name) == \E i \in 1..Len(blob.surface) : blob.surface[i].op = name

(* C1: if canvas.toBlob delivers no blob after the surface was composed,   *)
(* processImage catches the failure and resolves with the cutout-only      *)
(* result instead of rejecting.  Stated on the code: a run whose export    *)
(* has failed never ends rejected, it ends resolved with a cutout.         *)
C1_ExportFailureFallsBack ==
    ~(outcome.status = "rejected" /\ outcome.error.step = "export")

(* C2 as stated: if the first cutout call fails, processImage rejects with *)
(* that same error, makes no further cutout call and returns no blob.      *)
C2_CutoutFailureFatal ==
    FirstCutoutFailed =>
        /\ Len(cutoutCalls) = 1
        /\ outcome.status # "resolved"
        /\ Settled => outcome.error = caught

(* C2 amended: if the first cutout call fails, the catch clause makes one  *)
(* further cutout call, without the pipeline config; processImage resolves *)
(* with that call's output if it succeeds and rejects only if it fails,    *)
(* then with the second call's error, not the first one's.                 *)
C2_CutoutFailureRetried ==
    FirstCutoutFailed =>
        /\ caught.step = "cutout" /\ caught.call = 1
        /\ Len(cutoutCalls) = 2
        /\ cutoutCalls[2].cfg = ConfigDefault
        /\ canvas = NoCanvas
        /\ pc \in {"awaitFallback", "done"}
        /\ (pc = "done") = Settled
        /\ outcome.status = "rejected" =>
              outcome.error.step = "cutout" /\ outcome.error.call = 2
        /\ outcome.status = "resolved" =>
              CutoutOnly(outcome.value) /\ outcome.value.call = 2

C2_Witness ==
    /\ FirstCutoutFailed
    /\ outcome.status = "rejected"
    /\ outcome.error.code # caught.code

\* the failures C3 is about
LateFailureSteps == {"subjectDecode", "context", "logoDecode"}

C3_Degraded ==
    caught.step \in LateFailureSteps =>
        /\ mode = "Minimal"
        /\ pc \in {"awaitFallback", "done"}
        /\ outcome.status = "resolved" =>
              /\ CutoutOnly(outcome.value)
              /\ ~HasOp(outcome.value, "fillRect")
              /\ ~HasOp(outcome.value, "drawLogo")
              /\ ~HasOp(outcome.value, "roundRect")
              /\ ~HasOp(outcome.value, "fillText")

(* C3: a failure of the subject decode, of the 2d-context acquisition or   *)
(* of the logo decode moves the invocation from Advanced to Minimal; the   *)
(* result then returned has no white background, no logo and no price tag, *)
(* also when white fill and subject were already drawn; and Minimal is     *)
(* never left for Advanced.                                                *)
C3_LateFailureDegrades ==
    /\ []C3_Degraded
    /\ [][(caught.step \notin LateFailureSteps /\ caught'.step \in LateFailureSteps)
            => (mode = "Advanced" /\ mode' = "Minimal")]_vars
    /\ [][mode = "Minimal" => (mode' = "Minimal" /\ caught' = caught
                                 /\ pc' # "awaitExport")]_vars

C3_Witness ==
    /\ caught.step = "logoDecode"
    /\ HasOp(CompositeBlob(canvas), "fillRect")
    /\ HasOp(CompositeBlob(canvas), "drawSubject")
    /\ outcome.status = "resolved"

(* C4 as stated: when the subject decode fails after a successful cutout,  *)
(* the returned bytes equal the output the first cutout call produced.     *)
C4_ReturnsFirstCutout ==
    (caught.step = "subjectDecode" /\ outcome.status = "resolved") =>
        /\ outcome.value.bytes = transparentBlob.bytes
        /\ outcome.value.cfg = transparentBlob.cfg
        /\ outcome.value.call = transparentBlob.call

(* C4 amended: when the subject decode fails after a successful cutout,    *)
(* the bytes processImage returns are the output of a second cutout call,  *)
(* made without the pipeline config; they are a raw cutout (not a 720x720  *)
(* composite) without price or logo overlay, and need not equal the output *)
(* of the first call.                                                      *)
C4_ReturnsSecondCutout ==
    (caught.step = "subjectDecode" /\ outcome.status = "resolved") =>
        /\ transparentBlob.kind = "cutout" /\ transparentBlob.call = 1
        /\ transparentBlob.cfg = PipelineConfig
        /\ outcome.value.kind = "cutout"
        /\ outcome.value.call = 2
        /\ outcome.value.cfg = ConfigDefault
        /\ outcome.value.bytes \in CutoutImages
        /\ outcome.value.surface = <<>>
        /\ canvas = NoCanvas

C4_Witness ==
    /\ caught.step = "subjectDecode"
    /\ outcome.status = "resolved"
    /\ outcome.value.bytes # transparentBlob.bytes

(* C5: whenever the first cutout call succeeds, processImage resolves with *)
(* an image and never rejects, whichever later step fails.                 *)
C5_NeverRejectsAfterCutout ==
    transparentBlob # NoBlob => outcome.status # "rejected"

(* C6 as stated: an invocation calls the cutout capability at most once.   *)
C6_AtMostOneCutout == Len(cutoutCalls) <= 1

(* C6 amended: an invocation calls the cutout capability at most twice:    *)
(* once with the pipeline config as the first step of the chain (cutout,   *)
(* subject decode, optional logo decode, encode), and a second time,       *)
(* without the config, exactly when the catch clause runs; the Minimal     *)
(* result is the output of that second call, not a reuse of the first.     *)
C6_AtMostTwoCutouts ==
    /\ Len(cutoutCalls) <= 2
    /\ (pc = "idle") = (cutoutCalls = <<>>)
    /\ Len(cutoutCalls) >= 1 => cutoutCalls[1].cfg = PipelineConfig
    /\ (Len(cutoutCalls) = 2) = (mode = "Minimal")
    /\ Len(cutoutCalls) = 2 => cutoutCalls[2].cfg = ConfigDefault
    /\ (outcome.status = "resolved" /\ mode = "Minimal") =>
            outcome.value.call = 2
    /\ pc \in {"awaitSubjectDecode", "awaitLogoDecode", "awaitExport"} =>
            Len(cutoutCalls) = 1 /\ transparentBlob.call = 1

C6_Witness ==
    /\ Len(cutoutCalls) = 2
    /\ transparentBlob # NoBlob
    /\ outcome.status = "resolved"
    /\ outcome.value.call = 2

----------------------------------------------------------------------------
(* Price text formatting *)

Formatted == fmtPc \in {"once", "twice"}

Rs1500Formatted == <<"R", "s", " ", "1", "5", "0", "0", "/", "=">>

(* C7: price formatting is idempotent: formatting the formatted text again *)
(* yields the same text, and an already formatted text such as             *)
(* "Rs 1500/=" is returned unchanged.                                      *)
C7_FormatIdempotent ==
    /\ fmtPc = "twice" => fmtOut2 = fmtOut
    /\ (Formatted /\ fmtIn = Rs1500Formatted) => fmtOut = fmtIn

C7_Witness ==
    /\ fmtPc = "twice"
    /\ fmtIn = <<"R", "s", " ", "1">>
    /\ fmtOut = <<"R", "s", " ", "1", "/", "=">>
    /\ fmtOut2 = fmtOut

(* C8 as stated: for every input whose trimmed text contains no digit and *)
(* no '.', the formatter returns the trimmed input unchanged, whether or   *)
(* not the text contains or starts with "rs".                              *)
C8_NoNumberUnchanged ==
    (Formatted /\ \A i \in 1..Len(trim(fmtIn)) :
                      trim(fmtIn)[i] \notin Digits \cup {"."})
        => fmtOut = trim(fmtIn)

(* C8 amended: for every input whose trimmed text contains no digit and no *)
(* '.', the formatter returns the trimmed input unchanged, except that a   *)
(* text that starts with "rs" (any letter case) and does not end with      *)
(* "/=" gets "/=" appended.                                                *)
C8_NoNumberUnchangedUnlessRs ==
    LET t == trim(fmtIn)
        noNumber == \A i \in 1..Len(t) : t[i] \notin Digits \cup {"."}
        startsRs == Len(t) >= 2 /\ t[1] \in {"r", "R"} /\ t[2] \in {"s", "S"}
        endsSuffix == Len(t) >= 2 /\ t[Len(t) - 1] = "/" /\ t[Len(t)] = "="
    IN  (Formatted /\ noNumber)
            => fmtOut = IF startsRs /\ ~endsSuffix THEN t \o <<"/", "=">> ELSE t

C8_Witness ==
    /\ Formatted
    /\ fmtIn = <<" ", "R", "s", "a">>
    /\ fmtOut = <<"R", "s", "a", "/", "=">>

(* C9: for every input whose trimmed text contains a digit or '.' and does *)
(* not contain "rs" in any letter case, the displayed text is "Rs "        *)
(* followed by the input's digits and dots in their original order         *)
(* followed by "/=" ("1500" gives "Rs 1500/=").                            *)
C9_PlainNumberGetsRsForm ==
    LET t == trim(fmtIn)
        numeric == SelectSeq(t, LAMBDA c : c \in Digits \cup {"."})
        hasRs == \E i \in 1..(Len(t) - 1) :
                    t[i] \in {"r", "R"} /\ t[i + 1] \in {"s", "S"}
    IN  (Formatted /\ numeric # <<>> /\ ~hasRs)
            => fmtOut = <<"R", "s", " ">> \o numeric \o <<"/", "=">>

C9_Witness ==
    /\ Formatted
    /\ fmtIn = <<"1", "5", "0", "0">>
    /\ fmtOut = Rs1500Formatted

----------------------------------------------------------------------------
(* Overlays and the surface *)

\* the names of the draw calls made on the canvas, in order
OpNames(cv) == [i \in 1..Len(cv.ops) |-> cv.ops[i].op]

\* how many of the draw calls on the canvas have the given name
CountOps(cv, name) == Cardinality({i \in 1..Len(cv.ops) : cv.ops[i].op = name})

CountCalls(calls, what) == Cardinality({i \in 1..Len(calls) : calls[i] = what})

(* C11: the price overlay is drawn only if the formatted price text is    *)
(* non-empty: for a priceText that is absent, empty or only whitespace no  *)
(* price box is drawn.                                                     *)
C11_NoEmptyPriceBox ==
    formatPrice(options.priceText) = <<>> => CountOps(canvas, "roundRect") = 0

(* C12: in one invocation at most one logo draw and at most one price-tag  *)
(* draw occur, and when no logo file is supplied the logo is neither       *)
(* decoded nor drawn.                                                      *)
C12_AtMostOneOverlayEach ==
    /\ CountOps(canvas, "drawLogo") <= 1
    /\ CountOps(canvas, "roundRect") <= 1
    /\ CountOps(canvas, "fillText") <= 1
    /\ CountCalls(bitmapCalls, "logo") <= 1
    /\ ~options.logoFile =>
          /\ CountCalls(bitmapCalls, "logo") = 0
          /\ CountOps(canvas, "drawLogo") = 0
          /\ pc # "awaitLogoDecode"

C12_Witness ==
    /\ outcome.status = "resolved"
    /\ ~options.logoFile
    /\ CountOps(canvas, "roundRect") = 1
    /\ bitmapCalls = <<"subject">>

(* C13: for every box width w and height h, corner placement on the 720    *)
(* canvas with padding 40 gives top-left (40, 40), top-right              *)
(* (720 - w - 40, 40), bottom-left (40, 720 - h - 40), bottom-right        *)
(* (720 - w - 40, 720 - h - 40); w=100, h=50 at bottom-right gives         *)
(* (580, 630).                                                             *)
C13_CornerPlacement ==
    geoPc = "coords" =>
        LET right == RSub(RI(680), geoIn.w)
            bottom == RSub(RI(680), geoIn.h)
        IN  /\ geoIn.pos = "top-left" =>
                  geoOut.x = RI(40) /\ geoOut.y = RI(40)
            /\ geoIn.pos = "top-right" =>
                  geoOut.x = right /\ geoOut.y = RI(40)
            /\ geoIn.pos = "bottom-left" =>
                  geoOut.x = RI(40) /\ geoOut.y = bottom
            /\ geoIn.pos = "bottom-right" =>
                  geoOut.x = right /\ geoOut.y = bottom

C13_Witness ==
    /\ geoPc = "coords"
    /\ geoIn.pos = "bottom-right"
    /\ geoIn.w = RI(100) /\ geoIn.h = RI(50)
    /\ geoOut.x = RI(580) /\ geoOut.y = RI(630)

(* C14: for the custom position with percentages (xPct, yPct) and any box  *)
(* (w, h), the top-left is (xPct/100*720 - w/2, yPct/100*720 - h/2), so the *)
(* box centre is at (xPct/100*720, yPct/100*720); nothing is clamped, the   *)
(* box may lie partly outside the canvas; Custom(50,50) with w=100, h=50    *)
(* gives (310, 335).                                                       *)
C14_CustomPlacement ==
    (geoPc = "coords" /\ geoIn.pos = "custom"
        /\ geoIn.customX # Undef /\ geoIn.customY # Undef) =>
        LET px == RNorm(geoIn.customX[1] * 720, geoIn.customX[2] * 100)
            py == RNorm(geoIn.customY[1] * 720, geoIn.customY[2] * 100)
        IN  /\ RAdd(geoOut.x, RDiv(geoIn.w, RI(2))) = px
            /\ RAdd(geoOut.y, RDiv(geoIn.h, RI(2))) = py
            /\ geoOut.x = RSub(px, RDiv(geoIn.w, RI(2)))
            /\ geoOut.y = RSub(py, RDiv(geoIn.h, RI(2)))
            /\ (geoIn.customX = RI(50) /\ geoIn.customY = RI(50)
                    /\ geoIn.w = RI(100) /\ geoIn.h = RI(50))
                 => geoOut.x = RI(310) /\ geoOut.y = RI(335)

\* a box placed at the left edge sticks out of the canvas
C14_Witness ==
    /\ geoPc = "coords"
    /\ geoIn.pos = "custom"
    /\ geoIn.customX = RI(0) /\ geoIn.customY = RI(50)
    /\ geoIn.w = RI(100) /\ geoIn.h = RI(50)
    /\ geoOut.x = RI(-50) /\ geoOut.y = RI(335)

(* C15: for every overlay (logo or price tag), position, rotation and      *)
(* scale, the overlay's centre (resolved top-left plus half its width and  *)
(* height) is a fixed point of the transform under which it is drawn, so   *)
(* scale 2 with rotation 90 leaves the centre where scale 1 with rotation  *)
(* 0 leaves it.                                                            *)
C15_CentreIsPivot ==
    geoPc \in {"logo", "price"} =>
        LET cx == RAdd(geoOut.x, RDiv(geoOut.w, RI(2)))
            cy == RAdd(geoOut.y, RDiv(geoOut.h, RI(2)))
        IN  Apply(geoOut.m, cx, cy) = [x |-> cx, y |-> cy]

C15_Witness ==
    /\ geoPc = "logo"
    /\ geoIn.scale = RI(2) /\ geoIn.rotation = RI(90)
    /\ geoIn.pos = "custom" /\ geoIn.customX = RI(50)
    /\ geoOut.m.a = RI(0) /\ geoOut.m.b = RI(2)

(* C16: for every subject of positive width and height, the drawn subject  *)
(* keeps its aspect ratio (scaledWidth*height = scaledHeight*width), its   *)
(* longer scaled side is at most 648, and it is centred:                   *)
(* x = (720 - scaledWidth)/2, y = (720 - scaledHeight)/2.                  *)
C16_SubjectFit ==
    geoPc = "subject" =>
        /\ RMul(geoOut.w, geoIn.h) = RMul(geoOut.h, geoIn.w)
        /\ RLe(geoOut.w, RI(648)) /\ RLe(geoOut.h, RI(648))
        /\ RAdd(RAdd(geoOut.x, geoOut.x), geoOut.w) = RI(720)
        /\ RAdd(RAdd(geoOut.y, geoOut.y), geoOut.h) = RI(720)

C16_Witness ==
    /\ geoPc = "subject"
    /\ geoIn.w = RI(400) /\ geoIn.h = RI(300)
    /\ geoOut.w = RI(648) /\ geoOut.h = RI(486)
    /\ geoOut.x = RI(36) /\ geoOut.y = RI(117)

(* C17: on the advanced path the surface that is encoded is always         *)
(* 720x720, whatever the subject's and logo's dimensions, and it is filled *)
(* entirely with opaque white before the subject or any overlay is drawn.  *)
C17_WhiteSquareSurface ==
    /\ (pc = "awaitExport" \/ outcome.value.kind = "composite") =>
          /\ canvas.width = 720 /\ canvas.height = 720
          /\ canvas.ops # <<>>
          /\ outcome.value.kind = "composite" =>
                outcome.value.surface = canvas.ops
    /\ canvas.ops # <<>> =>
          /\ canvas.ops[1].op = "fillRect"
          /\ canvas.ops[1].fillStyle = "#FFFFFF"
          /\ canvas.ops[1].m = Identity
          /\ canvas.ops[1].x = RI(0) /\ canvas.ops[1].y = RI(0)
          /\ canvas.ops[1].w = RI(canvas.width)
          /\ canvas.ops[1].h = RI(canvas.height)

C17_Witness ==
    /\ outcome.value.kind = "composite"
    /\ CountOps(canvas, "drawLogo") = 1
    /\ CountOps(canvas, "fillText") = 1

(* C19: drawTransform restores the context's saved state on every exit,    *)
(* also when the draw callback raises: between the steps of processImage   *)
(* the save/restore stack is empty and transform and shadow are what they  *)
(* were before the call.                                                   *)
C19_ContextRestored ==
    canvas.ctx.ok =>
        /\ canvas.ctx.saved = <<>>
        /\ canvas.ctx.state.m = Identity
        /\ canvas.ctx.state.shadowColor = NoShadow
        /\ canvas.ctx.state.fillStyle = "#FFFFFF"

\* the draw calls of a complete advanced run, in order
FullOrder ==
    <<"fillRect", "drawSubject">>
        \o (IF options.logoFile THEN <<"drawLogo">> ELSE <<>>)
        \o (IF options.priceText # <<>> THEN <<"roundRect", "fillText">> ELSE <<>>)

C20_Ordered ==
    /\ Len(canvas.ops) <= Len(FullOrder)
    /\ OpNames(canvas) = SubSeq(FullOrder, 1, Len(canvas.ops))
    /\ canvas.ops # <<>> => transparentBlob # NoBlob /\ cutoutCalls # <<>>
    /\ (pc = "awaitExport" \/ outcome.value.kind = "composite") =>
          OpNames(canvas) = FullOrder
    /\ outcome.value.kind = "composite" =>
          outcome.value.surface = canvas.ops

(* C20: in every successful advanced run the steps occur in the order      *)
(* cutout, white fill, subject draw, logo draw (if any), price-tag draw    *)
(* (if any), encode; the logo is drawn before the price tag, and encoding  *)
(* starts only after all draws.                                            *)
C20_StepOrder ==
    /\ []C20_Ordered
    /\ [][pc = "awaitExport" => canvas' = canvas]_vars
    /\ [][pc' = "awaitExport" =>
            pc \in {"awaitSubjectDecode", "awaitLogoDecode"}]_vars

C20_Witness ==
    /\ outcome.value.kind = "composite"
    /\ OpNames(canvas) =
          <<"fillRect", "drawSubject", "drawLogo", "roundRect", "fillText">>

----------------------------------------------------------------------------
(* Concurrent invocations *)

\* what an advanced run draws, computed from the invocation's own inputs
OwnSurface(r) ==
    LET based == drawSubject(fillWhite([NewCanvas EXCEPT !.ctx = InitialCtx]),
                             r.imageBitmap)
        logoed == IF hasLogo(r.options)
                  THEN drawLogo(based, r.options, r.logoBitmap, TRUE)
                  ELSE based
    IN  drawPrice(logoed, r.options, TRUE).ops

(* C18: the canvas and its context belong to a single invocation: when two *)
(* invocations interleave at their suspension points, no draw of one lands *)
(* on the other's surface, and the result of an invocation depends only on *)
(* its own inputs.                                                         *)
C18_CanvasPerInvocation ==
    /\ \A i \in Invs :
          inv[i].canvas # 0 =>
              /\ inv[i].canvas \in 1..Len(heap)
              /\ heap[inv[i].canvas].creator = i
    /\ \A k \in 1..Len(heap) : heap[k].writers = {heap[k].creator}
    /\ \A i, j \in Invs :
          (i # j /\ inv[i].canvas # 0) => inv[i].canvas # inv[j].canvas
    /\ \A i \in Invs :
          inv[i].outcome.value.kind = "composite" =>
              inv[i].outcome.value.surface = OwnSurface(inv[i])

\* both invocations are in flight with a canvas each, and one has resolved
\* while the other still waits for its logo
C18_Witness ==
    /\ inv[1].pc = "awaitLogoDecode"
    /\ inv[2].outcome.value.kind = "composite"
    /\ inv[1].canvas = 1 /\ inv[2].canvas = 2

----------------------------------------------------------------------------
(* Price tag *)

\* the index of the first draw call of the given name, 0 if there is none
IndexOf(cv, name) ==
    IF CountOps(cv, name) = 0 THEN 0
    ELSE CHOOSE k \in 1..Len(cv.ops) :
            /\ cv.ops[k].op = name
            /\ \A j \in 1..(k - 1) : cv.ops[j].op # name

(* C21: when the price tag is drawn, the drop shadow (30% black, blur 10,   *)
(* vertical offset 5) is active while the background box is filled and is   *)
(* fully transparent before the text is drawn, so the text casts no shadow; *)
(* the shadow setting does not persist after the price-tag draw.            *)
C21_ShadowOnlyOnBox ==
    /\ \A k \in 1..Len(canvas.ops) :
          /\ canvas.ops[k].op = "roundRect" =>
                /\ canvas.ops[k].shadowColor = "rgba(0,0,0,0.3)"
                /\ canvas.ops[k].shadowBlur = 10
                /\ canvas.ops[k].shadowOffsetY = 5
          /\ canvas.ops[k].op = "fillText" =>
                /\ canvas.ops[k].shadowColor = NoShadow
                /\ k > 1 /\ canvas.ops[k - 1].op = "roundRect"
    /\ CountOps(canvas, "fillText") > 0 =>
          /\ canvas.ctx.state.shadowColor = NoShadow
          /\ canvas.ctx.state.shadowBlur = 0
          /\ canvas.ctx.state.shadowOffsetY = 0

C21_Witness ==
    /\ pc = "awaitExport"
    /\ IndexOf(canvas, "roundRect") > 0
    /\ IndexOf(canvas, "fillText") = IndexOf(canvas, "roundRect") + 1
    /\ canvas.ctx.saved = <<>>
    /\ canvas.ops[IndexOf(canvas, "roundRect")].shadowBlur = 10
\* the background box and the text of the price tag, as drawn
TagBox == canvas.ops[IndexOf(canvas, "roundRect")]

TagText == canvas.ops[IndexOf(canvas, "fillText")]

TagDrawn == IndexOf(canvas, "fillText") > 0

\* width textWidth + 32, height 56 + 32, text with top-aligned baseline
TagBoxFits ==
    /\ TagBox.w = RAdd(TagText.w, RI(32))
    /\ TagBox.h = RI(88)
    /\ TagText.w = measureText(formatPrice(options.priceText))
    /\ TagText.text = formatPrice(options.priceText)
    /\ TagText.textBaseline = "top"
    /\ TagText.m = TagBox.m

(* C22 as stated: the formatted price text is drawn with its top-aligned   *)
(* origin inset by the 16-unit padding from the box's top-left in both     *)
(* axes, at (box.x + 16, box.y + 16), inside a box of width textWidth + 32 *)
(* and height 56 + 32.                                                     *)
C22_TextInset16 ==
    TagDrawn =>
        /\ TagBoxFits
        /\ TagText.x = RAdd(TagBox.x, RI(16))
        /\ TagText.y = RAdd(TagBox.y, RI(16))

(* C22 amended: the text origin is at (box.x + 16, box.y + 20): inset by   *)
(* the padding 16 horizontally and by the padding plus 4 vertically,       *)
(* inside a box of width textWidth + 32 and height 56 + 32.                *)
C22_TextInset16And20 ==
    TagDrawn =>
        /\ TagBoxFits
        /\ TagText.x = RAdd(TagBox.x, RI(16))
        /\ TagText.y = RAdd(TagBox.y, RI(20))

C22_Witness ==
    /\ TagDrawn
    /\ options.priceText = <<"1">>
    /\ TagBox.w = RI(CharWidth * 6 + 32)
    /\ TagText.y = RAdd(TagBox.y, RI(20))
----------------------------------------------------------------------------
(* Logo box, subject fit, defaults *)

\* the position getCoords resolves for the logo when none is given
LogoPos == IF geoIn.pos = "" THEN "top-right" ELSE geoIn.pos

(* C23: for every logo of positive dimensions, the base logo box keeps the *)
(* logo's aspect ratio and has both sides at most 150, and the position    *)
(* (corner or custom) is resolved with these scaled box dimensions, not    *)
(* with the logo's original dimensions.                                    *)
C23_LogoBoxFits ==
    geoPc = "logo" =>
        /\ RMul(geoOut.w, geoIn.h) = RMul(geoOut.h, geoIn.w)
        /\ RLe(geoOut.w, RI(150)) /\ RLe(geoOut.h, RI(150))
        /\ LogoPos \in {"top-right", "bottom-right"} =>
               geoOut.x = RSub(RI(680), geoOut.w)
        /\ LogoPos \in {"bottom-left", "bottom-right"} =>
               geoOut.y = RSub(RI(680), geoOut.h)
        /\ (LogoPos = "custom" /\ geoIn.customX # Undef) =>
               RAdd(geoOut.x, RDiv(geoOut.w, RI(2))) =
                   RNorm(geoIn.customX[1] * 720, geoIn.customX[2] * 100)
        /\ (LogoPos = "custom" /\ geoIn.customY # Undef) =>
               RAdd(geoOut.y, RDiv(geoOut.h, RI(2))) =
                   RNorm(geoIn.customY[1] * 720, geoIn.customY[2] * 100)

\* a 400x300 logo becomes a 150 x 112.5 box, placed by that size
C23_Witness ==
    /\ geoPc = "logo"
    /\ geoIn.w = RI(400) /\ geoIn.h = RI(300)
    /\ geoIn.pos = "bottom-right"
    /\ geoOut.w = RI(150) /\ geoOut.h = <<225, 2>>
    /\ geoOut.x = RI(530) /\ geoOut.y = <<1135, 2>>
\* the longer of two sides
RMax(p, q) == IF RLe(p, q) THEN q ELSE p

(* C24: for every subject of positive dimensions the longer side of the    *)
(* drawn subject is exactly 648: the fit scale is applied unconditionally, *)
(* so a subject whose both sides are below 648 is enlarged to 648, and the *)
(* drawn subject lies inside the canvas with a margin of at least 36 on    *)
(* every side.                                                             *)
C24_LongerSideIs648 ==
    geoPc = "subject" =>
        /\ RMax(geoOut.w, geoOut.h) = RI(648)
        /\ RLe(RI(36), geoOut.x) /\ RLe(RI(36), geoOut.y)
        /\ RLe(RAdd(geoOut.x, geoOut.w), RI(684))
        /\ RLe(RAdd(geoOut.y, geoOut.h), RI(684))

\* a 2x3 subject is enlarged to 432x648
C24_Witness ==
    /\ geoPc = "subject"
    /\ geoIn.w = RI(2) /\ geoIn.h = RI(3)
    /\ geoOut.w = RI(432) /\ geoOut.h = RI(648)
    /\ geoOut.x = RI(144) /\ geoOut.y = RI(36)
\* the trimmed input has "rs" somewhere, in any letter case, but not in front
RsAt(t, i) ==
    i + 1 <= Len(t) /\ t[i] \in {"r", "R"} /\ t[i + 1] \in {"s", "S"}

RsInside ==
    /\ \E i \in 2..Len(trim(fmtIn)) : RsAt(trim(fmtIn), i)
    /\ ~RsAt(trim(fmtIn), 1)

(* C25: a trimmed price input that contains "rs" (any letter case)         *)
(* somewhere but does not start with it (e.g. "1500 rs", "hours 5") is     *)
(* displayed unchanged: neither the "Rs " prefix nor the "/=" suffix is    *)
(* added, even when it contains digits.                                    *)
C25_RsInsideUnchanged ==
    (Formatted /\ RsInside) => fmtOut = trim(fmtIn)

C25_Witness ==
    /\ Formatted
    /\ fmtIn = <<"1", "5", "0", "0", " ", "r", "s">>
    /\ fmtOut = fmtIn
\* the scale and the rotation the claim says are applied
AppliedScale ==
    IF geoIn.scale = Undef \/ geoIn.scale = RI(0) THEN RI(1) ELSE geoIn.scale

AppliedRotation == IF geoIn.rotation = Undef THEN 0 ELSE geoIn.rotation[1]

(* C26: an overlay is never drawn with scale 0: a logoScale or priceScale  *)
(* that is absent or 0 is replaced by 1, an absent rotation by 0, while    *)
(* every other scale value (negative ones too) is applied as given.        *)
C26_ScaleNeverZero ==
    geoPc \in {"logo", "price"} =>
        LET m == geoOut.m
            s == AppliedScale
            minus == RSub(RI(0), s)
        IN  /\ RSub(RMul(m.a, m.d), RMul(m.b, m.c)) = RMul(s, s)
            /\ RSub(RMul(m.a, m.d), RMul(m.b, m.c)) # RI(0)
            /\ AppliedRotation = 0 =>
                  m.a = s /\ m.b = RI(0) /\ m.c = RI(0) /\ m.d = s
            /\ AppliedRotation = 90 =>
                  m.a = RI(0) /\ m.b = s /\ m.c = minus /\ m.d = RI(0)
            /\ AppliedRotation = -90 =>
                  m.a = RI(0) /\ m.b = minus /\ m.c = s /\ m.d = RI(0)

\* a price tag given scale 0 is drawn at scale 1
C26_Witness ==
    /\ geoPc = "price"
    /\ geoIn.scale = RI(0) /\ geoIn.rotation = Undef
    /\ geoOut.m.a = RI(1) /\ geoOut.m.d = RI(1)

(* C27: with no logoPosition the logo is placed at top-right and with no   *)
(* pricePosition the price tag at bottom-right; a position value that is   *)
(* none of the four corners or "custom" resolves to (40, 40); position     *)
(* "custom" with X or Y absent uses 0 for it, which places the box centre  *)
(* on the canvas edge at coordinate 0.                                     *)
C27_PositionDefaults ==
    /\ (geoPc = "logo" /\ geoIn.pos = "") =>
          geoOut.x = RSub(RI(680), geoOut.w) /\ geoOut.y = RI(40)
    /\ (geoPc = "price" /\ geoIn.pos = "") =>
          /\ geoOut.x = RSub(RI(680), geoOut.w)
          /\ geoOut.y = RSub(RI(680), geoOut.h)
    /\ (geoPc \in {"coords", "logo", "price"} /\ geoIn.pos = "center") =>
          geoOut.x = RI(40) /\ geoOut.y = RI(40)
    /\ (geoPc \in {"coords", "logo", "price"} /\ geoIn.pos = "custom") =>
          /\ geoIn.customX = Undef =>
                RAdd(geoOut.x, RDiv(geoOut.w, RI(2))) = RI(0)
          /\ geoIn.customY = Undef =>
                RAdd(geoOut.y, RDiv(geoOut.h, RI(2))) = RI(0)

\* a 100x50 logo with no position: a 150x75 box at top-right
C27_Witness ==
    /\ geoPc = "logo"
    /\ geoIn.pos = ""
    /\ geoIn.w = RI(100) /\ geoIn.h = RI(50)
    /\ geoOut.x = RI(530) /\ geoOut.y = RI(40)
----------------------------------------------------------------------------
(* Editor page (Home): the handlers of the page and the continuations of   *)
(* handleProcess after each await.  processImage is the pipeline above,    *)
(* seen from the page by how its promise settles.                          *)

\* product images the user can pick
Files == {"fileA", "fileB"}

\* logos the user can pick
Logos == {"logo"}

\* how the promise of processImage can resolve: the composite or, after
\* the catch clause, the bare cutout
ResultKinds == {"composite", "cutout"}

\* the blob processImage resolves with, for the file and logo it was given
Result(kind, file, logo) == [kind |-> kind, of |-> file, logo |-> logo]

InFlight == {"awaitProcess", "awaitUpload", "awaitInsert"}

\* a plausible slip: the Generate button is never disabled
GenerateNeverDisabled == FALSE

\* disabled={loading || !originalFile}
GenerateDisabled == loading \/ originalFile = NoFile

\* disabled={!processedPreview}
DownloadDisabled == processedPreview = NoResult

\* the finally clause of handleProcess, with the toast of the exit taken
Finally(i, exit, message) ==
    /\ loading' = FALSE
    /\ toast' = message
    /\ runs' = [runs EXCEPT ![i].pc = exit]

\* onChange of the product image input; NoFile: the event carries no file
handleMainImageSelect(file) ==
    /\ IF file # NoFile
       THEN /\ originalFile' = file
            /\ processedPreview' = NoResult
       ELSE UNCHANGED <<originalFile, processedPreview>>
    /\ UNCHANGED <<supabase, logoFile, processedBlob, loading, toast,
                   downloaded, runs>>
    /\ UNCHANGED notPageVars

\* onChange of the logo input
handleLogoSelect(file) ==
    /\ IF file # NoFile
       THEN logoFile' = file /\ toast' = "Logo uploaded!"
       ELSE UNCHANGED <<logoFile, toast>>
    /\ UNCHANGED <<supabase, originalFile, processedPreview, processedBlob,
                   loading, downloaded, runs>>
    /\ UNCHANGED notPageVars

\* onClick of the Generate button, up to the await of processImage
handleProcess(i) ==
    /\ ~GenerateDisabled
    /\ runs[i].pc \notin InFlight
    /\ \A j \in RunIds : j < i => runs[j].pc \in InFlight
    /\ IF originalFile = NoFile
       THEN /\ toast' = "Please upload a product image first."
            /\ UNCHANGED <<loading, runs>>
       ELSE /\ loading' = TRUE
            /\ runs' = [runs EXCEPT ![i] =
                   [pc |-> "awaitProcess", file |-> originalFile,
                    logo |-> logoFile, blob |-> NoResult]]
            /\ UNCHANGED toast
    /\ UNCHANGED <<supabase, originalFile, logoFile, processedPreview,
                   processedBlob, downloaded>>
    /\ UNCHANGED notPageVars
\* processImage resolves: the result is shown, then uploaded if a storage
\* client is configured
ProcessResolve(i, kind) ==
    /\ runs[i].pc = "awaitProcess"
    /\ LET finalBlob == Result(kind, runs[i].file, runs[i].logo)
       IN  /\ processedPreview' = finalBlob
           /\ processedBlob' = finalBlob
           /\ IF supabase
              THEN /\ runs' = [runs EXCEPT ![i].pc = "awaitUpload",
                                           ![i].blob = finalBlob]
                   /\ UNCHANGED <<loading, toast>>
              ELSE /\ loading' = FALSE
                   /\ toast' = "Generated (Local)"
                   /\ runs' = [runs EXCEPT ![i].pc = "local",
                                           ![i].blob = finalBlob]
    /\ UNCHANGED <<supabase, originalFile, logoFile, downloaded>>
    /\ UNCHANGED notPageVars

\* processImage rejects: catch, finally
ProcessReject(i) ==
    /\ runs[i].pc = "awaitProcess"
    /\ Finally(i, "processFailed", "Error processing image.")
    /\ UNCHANGED <<supabase, originalFile, logoFile, processedPreview,
                   processedBlob, downloaded>>
    /\ UNCHANGED notPageVars

\* the storage upload resolves, with or without an error in its result
UploadResolve(i, error) ==
    /\ runs[i].pc = "awaitUpload"
    /\ IF ~error
       THEN /\ runs' = [runs EXCEPT ![i].pc = "awaitInsert"]
            /\ UNCHANGED <<loading, toast>>
       ELSE Finally(i, "uploadFailed", "Generated (Local)")
    /\ UNCHANGED <<supabase, originalFile, logoFile, processedPreview,
                   processedBlob, downloaded>>
    /\ UNCHANGED notPageVars

\* a plausible slip: the catch clause takes the result back
UploadRejectCleared(i) ==
    /\ runs[i].pc = "awaitUpload"
    /\ Finally(i, "uploadThrew", "Error processing image.")
    /\ processedPreview' = NoResult
    /\ processedBlob' = NoResult
    /\ UNCHANGED <<supabase, originalFile, logoFile, downloaded>>
    /\ UNCHANGED notPageVars

\* the storage upload rejects: catch, finally
UploadReject(i) ==
    /\ runs[i].pc = "awaitUpload"
    /\ Finally(i, "uploadThrew", "Error processing image.")
    /\ UNCHANGED <<supabase, originalFile, logoFile, processedPreview,
                   processedBlob, downloaded>>
    /\ UNCHANGED notPageVars

\* the posts insert resolves; an error in its result is not looked at
InsertResolve(i, error) ==
    /\ runs[i].pc = "awaitInsert"
    /\ Finally(i, "saved", "Generated & Saved!")
    /\ UNCHANGED <<supabase, originalFile, logoFile, processedPreview,
                   processedBlob, downloaded>>
    /\ UNCHANGED notPageVars

\* the posts insert rejects: catch, finally
InsertReject(i) ==
    /\ runs[i].pc = "awaitInsert"
    /\ Finally(i, "insertThrew", "Error processing image.")
    /\ UNCHANGED <<supabase, originalFile, logoFile, processedPreview,
                   processedBlob, downloaded>>
    /\ UNCHANGED notPageVars

\* onClick of the Download button
handleDownload ==
    /\ ~DownloadDisabled
    /\ IF processedBlob = NoResult
       THEN UNCHANGED downloaded
       ELSE downloaded' = processedBlob
    /\ UNCHANGED <<supabase, originalFile, logoFile, processedPreview,
                   processedBlob, loading, toast, runs>>
    /\ UNCHANGED notPageVars

\* the page after its first render, with or without a storage client
PageInit ==
    /\ PipeIdle
    /\ FmtIdle
    /\ GeoIdle
    /\ PairIdle
    /\ supabase \in BOOLEAN
    /\ originalFile = NoFile
    /\ logoFile = NoFile
    /\ processedPreview = NoResult
    /\ processedBlob = NoResult
    /\ loading = FALSE
    /\ toast = "none"
    /\ downloaded = NoResult
    /\ runs = [i \in RunIds |-> NoRun]

PageNext ==
    \/ \E file \in Files \cup {NoFile} : handleMainImageSelect(file)
    \/ \E file \in Logos \cup {NoFile} : handleLogoSelect(file)
    \/ \E i \in RunIds : handleProcess(i)
    \/ \E i \in RunIds, kind \in ResultKinds : ProcessResolve(i, kind)
    \/ \E i \in RunIds : ProcessReject(i)
    \/ \E i \in RunIds, error \in BOOLEAN : UploadResolve(i, error)
    \/ \E i \in RunIds : UploadReject(i)
    \/ \E i \in RunIds, error \in BOOLEAN : InsertResolve(i, error)
    \/ \E i \in RunIds : InsertReject(i)
    \/ handleDownload

PageSpec == PageInit /\ [][PageNext]_vars
----------------------------------------------------------------------------
(* Editor page: preview, loading flag, failures after the generation *)

(* C28: whenever a processed preview is displayed it was generated from    *)
(* the currently selected product image: selecting a new product image     *)
(* while a generation is in flight never results in the old image's result *)
(* being displayed for the new selection.                                  *)
C28_PreviewOfSelected ==
    processedPreview # NoResult => processedPreview.of = originalFile

RunsInFlight == {i \in RunIds : runs[i].pc \in InFlight}

\* a handleProcess run gets to its await of processImage
RunStarts(i) == runs[i].pc \notin InFlight /\ runs'[i].pc = "awaitProcess"

(* C29: loading is true exactly while a handleProcess run is in progress:  *)
(* it is set before processImage is called and reset to false on every     *)
(* exit path (success, processImage rejection, upload or insert failure),  *)
(* and while it is true the Generate button is disabled, so no second      *)
(* processImage call is started from it.                                   *)
C29_LoadingWhileRunning ==
    /\ [](loading <=> RunsInFlight # {})
    /\ [](Cardinality(RunsInFlight) <= 1)
    /\ [](loading => GenerateDisabled)
    /\ [][\A i \in RunIds : RunStarts(i) => (~loading /\ loading')]_vars

\* a run is in progress after an earlier one left through its catch
C29_Witness ==
    /\ runs[1].pc = "awaitInsert"
    /\ toast = "Error processing image."
    /\ loading
    /\ GenerateDisabled

\* a run fails after processImage resolved
FailsLate(i) ==
    /\ runs[i].pc \in {"awaitUpload", "awaitInsert"}
    /\ runs'[i].pc \in {"uploadFailed", "uploadThrew", "insertThrew"}

(* C30: a failure of the storage upload or of the posts insert after       *)
(* processImage succeeded leaves the generated result in place:            *)
(* processedPreview and processedBlob are not changed by the failure,      *)
(* processedBlob is the generated image, and the image remains             *)
(* downloadable.                                                           *)
C30_ResultKeptOnLateFailure ==
    /\ [][\A i \in RunIds : FailsLate(i) =>
            /\ processedPreview' = processedPreview
            /\ processedBlob' = processedBlob
            /\ processedBlob' = runs[i].blob
            /\ processedBlob' # NoResult]_vars
    /\ [](\A i \in RunIds :
            runs[i].pc \in {"awaitUpload", "awaitInsert"} =>
                /\ processedBlob = runs[i].blob
                /\ processedPreview \in {runs[i].blob, NoResult})
    /\ [](~DownloadDisabled => processedBlob = processedPreview)

\* the insert failed, the result is still displayed and was downloaded
C30_Witness ==
    /\ runs[1].pc = "insertThrew"
    /\ toast = "Error processing image."
    /\ processedPreview = runs[1].blob
    /\ processedBlob = runs[1].blob
    /\ runs[1].blob.kind = "composite"
    /\ downloaded = runs[1].blob
====
